---- MODULE Spec2Model ----
(***************************************************************************)
(* A model of pymed's extraction code: helpers.py (batches, getContent,    *)
(* getBody, getBodySections, getSection) and article.py (PubMedArticle,    *)
(* PMCArticle).                                                            *)
(*                                                                         *)
(* Python values are represented as follows.                               *)
(*   str            a TLA+ string                                          *)
(*   Optional[T]    a sequence of length <= 1: None is <<>>, v is <<v>>    *)
(*   list           a sequence                                             *)
(*   datetime.date  a record [year, month, day]                            *)
(*   Element        a record [tag, attrib, text, tail, children], text and *)
(*                  tail being Optional[str], attrib a function from       *)
(*                  attribute names to strings                             *)
(* An expression that may raise evaluates to [raised |-> TRUE, exc |-> e]  *)
(* or to [raised |-> FALSE, value |-> v].                                  *)
(***************************************************************************)
EXTENDS Integers, Sequences, FiniteSets, TLC

VARIABLES
    xml_element,  \* Optional[Element]: the constructor's first argument
    kwargs,       \* the constructor's keyword arguments (a function)
    article,      \* the article object: its state and the attributes set
    dict,         \* Optional: what toDict() returned
    element,      \* getContent's element argument
    content,      \* Optional: the last getContent call and its result
    iterable,     \* batches' iterable argument
    n,            \* batches' n argument
    index,        \* batches: the generator's loop variable
    chunks,       \* batches: the chunks yielded so far
    exhausted     \* batches: the generator has returned

vars ==
    <<xml_element, kwargs, article, dict, element, content,
      iterable, n, index, chunks, exhausted>>

----------------------------------------------------------------------------
(* Python values *)

None == <<>>

Some(v) == <<v>>

Ok(v) == [raised |-> FALSE, value |-> v]

Raise(e) == [raised |-> TRUE, exc |-> e]

Min(a, b) == IF a <= b THEN a ELSE b

RECURSIVE Flatten(_)
Flatten(seqs) ==
    IF seqs = <<>> THEN <<>> ELSE Head(seqs) \o Flatten(Tail(seqs))

\* The elements of a list.
Range(s) == {s[i] : i \in 1..Len(s)}

----------------------------------------------------------------------------
(* str methods *)

Char(s, i) == SubSeq(s, i, i)

Whitespace == {" ", "\n", "\t", "\r"}

\* str.strip()
Strip(s) ==
    LET keep == {i \in 1..Len(s) : Char(s, i) \notin Whitespace}
    IN  IF keep = {} THEN ""
        ELSE SubSeq(s, CHOOSE i \in keep : \A j \in keep : i <= j,
                       CHOOSE i \in keep : \A j \in keep : j <= i)

UpperCase == "ABCDEFGHIJKLMNOPQRSTUVWXYZ"

LowerCase == "abcdefghijklmnopqrstuvwxyz"

\* The lower-case letter of each upper-case letter.
LowerOf ==
    [c \in {Char(UpperCase, i) : i \in 1..Len(UpperCase)} |->
        Char(LowerCase, CHOOSE i \in 1..Len(UpperCase) : Char(UpperCase, i) = c)]

LowerChar(c) == IF c \in DOMAIN LowerOf THEN LowerOf[c] ELSE c

\* str.lower()
RECURSIVE Lower(_)
Lower(s) ==
    IF s = "" THEN "" ELSE LowerChar(Char(s, 1)) \o Lower(Tail(s))

\* sub in s
Contains(sub, s) ==
    \E i \in 0..(Len(s) - Len(sub)) : SubSeq(s, i + 1, i + Len(sub)) = sub

\* sep.join(parts)
RECURSIVE Join(_, _)
Join(sep, parts) ==
    IF parts = <<>> THEN ""
    ELSE IF Len(parts) = 1 THEN parts[1]
    ELSE parts[1] \o sep \o Join(sep, Tail(parts))

Digits == "0123456789"

IsDigit(c) == \E i \in 1..Len(Digits) : Char(Digits, i) = c

DigitValue(c) == (CHOOSE i \in 1..Len(Digits) : Char(Digits, i) = c) - 1

\* The value of a digit string in which single underscores may separate digits.
RECURSIVE DecimalValue(_, _)
DecimalValue(s, acc) ==
    IF s = "" THEN acc
    ELSE IF Char(s, 1) = "_" THEN DecimalValue(Tail(s), acc)
    ELSE DecimalValue(Tail(s), 10 * acc + DigitValue(Char(s, 1)))

\* Python's integer literal syntax as int(str) accepts it after the sign:
\* digits, single underscores only between digits.
IsDecimal(s) ==
    /\ s # ""
    /\ \A i \in 1..Len(s) : IsDigit(Char(s, i)) \/ Char(s, i) = "_"
    /\ Char(s, 1) # "_"
    /\ Char(s, Len(s)) # "_"
    /\ \A i \in 1..(Len(s) - 1) : ~(Char(s, i) = "_" /\ Char(s, i + 1) = "_")

\* int(x) for x an Optional[str]: TypeError on None, ValueError on text that
\* is no integer literal; surrounding whitespace and a sign are accepted.
int(x) ==
    IF x = None THEN Raise("TypeError")
    ELSE LET t == Strip(x[1])
             signed == t # "" /\ Char(t, 1) \in {"+", "-"}
             body == IF signed THEN Tail(t) ELSE t
         IN  IF ~IsDecimal(body) THEN Raise("ValueError")
             ELSE IF signed /\ Char(t, 1) = "-"
                  THEN Ok(0 - DecimalValue(body, 0))
                  ELSE Ok(DecimalValue(body, 0))

----------------------------------------------------------------------------
(* xml.etree.ElementTree *)

Attrs(pairs) == [k \in {p[1] : p \in Range(pairs)} |->
                    (CHOOSE p \in Range(pairs) : p[1] = k)[2]]

E(tag, pairs, text, tail, children) ==
    [tag |-> tag, attrib |-> Attrs(pairs), text |-> text, tail |-> tail,
     children |-> children]

\* An element with text only.
Leaf(tag, text) == E(tag, <<>>, text, None, <<>>)

\* Element.get(key)
Get(e, key) ==
    IF key \in DOMAIN e.attrib THEN Some(e.attrib[key]) ELSE None

\* list(Element.iter()): the element and its descendants in document order.
RECURSIVE Iter(_)
Iter(e) ==
    <<e>> \o Flatten([i \in 1..Len(e.children) |-> Iter(e.children[i])])

\* list(Element.itertext()): the text fragments of the element and of its
\* descendants, tails included, in document order; empty fragments skipped.
RECURSIVE IterText(_)
IterText(e) ==
    (IF e.text # None /\ e.text # Some("") THEN e.text ELSE <<>>)
    \o Flatten([i \in 1..Len(e.children) |->
           IterText(e.children[i])
           \o (IF e.children[i].tail # None /\ e.children[i].tail # Some("")
               THEN e.children[i].tail ELSE <<>>)])

\* One step of an ElementPath: "tag[@k='v']..." below "/" (axis "child") or
\* below ".//" (axis "descendant").
Step(axis, tag, preds) == [axis |-> axis, tag |-> tag, preds |-> preds]

Matches(e, step) ==
    /\ e.tag = step.tag
    /\ \A i \in 1..Len(step.preds) :
          Get(e, step.preds[i][1]) = Some(step.preds[i][2])

StepFrom(e, step) ==
    SelectSeq(IF step.axis = "child" THEN e.children ELSE Tail(Iter(e)),
              LAMBDA c : Matches(c, step))

\* Element.findall(path), the path given as its steps.
RECURSIVE FindAll(_, _)
FindAll(e, path) ==
    IF path = <<>> THEN <<e>>
    ELSE LET first == StepFrom(e, Head(path))
         IN  Flatten([i \in 1..Len(first) |-> FindAll(first[i], Tail(path))])

\* Element.find(path): the first match or None.
Find(e, path) ==
    LET all == FindAll(e, path)
    IN  IF all = <<>> THEN None ELSE Some(all[1])

\* Element.findtext(path) for a path that matches: the first match's text,
\* "" when it has none.
FindText(e, path) ==
    LET m == Find(e, path)[1]
    IN  IF m.text = None THEN "" ELSE m.text[1]

Child(tag) == <<Step("child", tag, <<>>)>>

Desc(tag) == <<Step("descendant", tag, <<>>)>>

DescAttr(tag, key, value) == <<Step("descendant", tag, << <<key, value>> >>)>>

----------------------------------------------------------------------------
(* helpers.py *)

\* iterable[index : min(index + n, length)]
BatchSliceShort(it, idx, size, length) ==
    SubSeq(it, idx + 1, Min(idx + size, length) - 1)

BatchSlice(it, idx, size, length) ==
    SubSeq(it, idx + 1, Min(idx + size, length))

\* [sub.text for sub in result if sub.text is not None]
TextsOf(result) ==
    LET withText == SelectSeq(result, LAMBDA sub : sub.text # None)
    IN  [i \in 1..Len(withText) |-> withText[i].text[1]]

\* getContent(element, path, default, separator) for an Optional element:
\* None has no findall, which raises AttributeError.
getContent(elem, path, default, separator) ==
    IF elem = None THEN Raise("AttributeError")
    ELSE LET result == FindAll(elem[1], path)
         IN  IF Len(result) = 0 THEN Ok(default)
             ELSE Ok(Some(Join(separator, TextsOf(result))))

\* " ".join(subtext.strip() for subtext in node.itertext())
Render(node) ==
    LET parts == IterText(node)
    IN  Join(" ", [i \in 1..Len(parts) |-> Strip(parts[i])])

\* The end of getAbstract, getBody and getSection: default when nothing was
\* accumulated.
OrDefaultEmptyKept(ret_str, default) == Some(ret_str)

OrDefault(ret_str, default) ==
    IF Len(ret_str) = 0 THEN default ELSE Some(ret_str)

\* What getAbstract and getBody add for one sec: its title and ": " when it
\* has a title child, then each p child followed by the separator.
SecText(sec, sep) ==
    (IF Find(sec, Child("title")) # None
     THEN Render(Find(sec, Child("title"))[1]) \o ": " ELSE "")
    \o (IF Find(sec, Child("p")) # None
        THEN LET ps == FindAll(sec, Child("p"))
             IN  Join("", [i \in 1..Len(ps) |-> Render(ps[i]) \o sep])
        ELSE "")

\* What getAbstract and getBody add for one element matched by the path: its
\* sections when it has a sec child, and otherwise the text of its children.
TopLevelText(top_level, sep) ==
    IF Find(top_level, Child("sec")) # None
    THEN LET secs == FindAll(top_level, Desc("sec"))
         IN  Join("", [i \in 1..Len(secs) |-> SecText(secs[i], sep)])
    ELSE Join("", [i \in 1..Len(top_level.children) |->
                      Render(top_level.children[i]) \o sep])

Accumulate(elem, path, sep) ==
    LET tops == FindAll(elem, path)
    IN  Join("", [i \in 1..Len(tops) |-> TopLevelText(tops[i], sep)])

getAbstract(elem, path, default) ==
    OrDefault(Accumulate(elem, path, "\n"), default)

getBody(elem, path, default) ==
    OrDefault(Accumulate(elem, path, "\n\n"), default)

\* section in sec.findtext('title').lower()
TitleNamesRendered(sec, section) ==
    Contains(section, Lower(Render(Find(sec, Child("title"))[1])))

TitleNamesExact(sec, section) ==
    section = Lower(FindText(sec, Child("title")))

TitleNames(sec, section) ==
    Contains(section, Lower(FindText(sec, Child("title"))))

\* What getSection adds for one sec matched by the path.
SectionText(sec, section) ==
    IF Find(sec, Child("title")) # None /\ TitleNames(sec, section)
    THEN Render(Find(sec, Child("title"))[1]) \o ": "
         \o (IF Find(sec, Desc("p")) # None
             THEN LET ps == FindAll(sec, Desc("p"))
                  IN  Join("", [i \in 1..Len(ps) |-> Render(ps[i]) \o "\n\n"])
             ELSE "")
    ELSE ""

getSection(elem, path, section, default) ==
    LET secs == FindAll(elem, path)
    IN  OrDefault(Join("", [i \in 1..Len(secs) |->
                      SectionText(secs[i], section)]), default)

\* The five canonical names in the order getBodySections returns them.
SectionNames ==
    <<"introduction", "methods", "results", "discussion", "conclusion">>

getBodySections(elem, path, default) ==
    [i \in 1..Len(SectionNames) |->
        getSection(elem, path, SectionNames[i], default)]

----------------------------------------------------------------------------
(* article.py: what the two classes share *)

\* getContent(element=xml_element, path=path): the element is never None here.
Content(xml, path) == getContent(Some(xml), path, None, "\n").value

\* [keyword.text for keyword in xml_element.findall(path) if keyword is not None]
KeywordTexts(xml, path) ==
    LET found == FindAll(xml, path)
        kept == SelectSeq(found, LAMBDA keyword : Some(keyword) # None)
    IN  [i \in 1..Len(kept) |-> kept[i].text]

\* int(getContent(publication_date, path, default))
IntContent(publication_date, path, default) ==
    LET c == getContent(publication_date, path, default, "\n")
    IN  IF c.raised THEN c ELSE int(c.value)

IsLeap(year) ==
    year % 4 = 0 /\ (year % 100 # 0 \/ year % 400 = 0)

DaysInMonth(year, month) ==
    IF month = 2 THEN (IF IsLeap(year) THEN 29 ELSE 28)
    ELSE IF month \in {4, 6, 9, 11} THEN 30 ELSE 31

\* datetime.date(year=..., month=..., day=...)
Date(year, month, day) ==
    IF /\ year >= 1 /\ year <= 9999
       /\ month >= 1 /\ month <= 12
       /\ day >= 1 /\ day <= DaysInMonth(year, month)
    THEN Ok([year |-> year, month |-> month, day |-> day])
    ELSE Raise("ValueError")

\* The month and day defaults of both _extractPublicationDate methods.
MonthDayDefault == Some("1")

\* The three int(getContent(...)) lines and the datetime.date call of the try
\* block, for the date node chosen and the tag names of the schema.
DateOf(publication_date, yearTag, monthTag, dayTag) ==
    LET y == IntContent(publication_date, Desc(yearTag), None)
        m == IntContent(publication_date, Desc(monthTag), MonthDayDefault)
        d == IntContent(publication_date, Desc(dayTag), MonthDayDefault)
    IN  IF y.raised THEN y
        ELSE IF m.raised THEN m
        ELSE IF d.raised THEN d
        ELSE Date(y.value, m.value, d.value)

\* except Exception as e: which exceptions of the try block the handler takes.
CaughtValueErrorOnly(exc) == exc = "ValueError"

Caught(exc) == TRUE

\* try: ... return datetime.date(...)  except Exception: return None
TryDate(attempt) ==
    IF ~attempt.raised THEN Ok(Some(attempt.value))
    ELSE IF Caught(attempt.exc) THEN Ok(None)
    ELSE attempt

----------------------------------------------------------------------------
(* article.py: PubMedArticle *)

PubMedSlots ==
    <<"pubmed_id", "title", "abstract", "keywords", "journal",
      "publication_date", "authors", "copyrights", "doi", "xml">>

PubMedExtractPublicationDate(xml) ==
    TryDate(DateOf(Find(xml, DescAttr("PubMedPubDate", "PubStatus", "pubmed")),
                   "Year", "Month", "Day"))

PubMedExtractAuthors(xml) ==
    LET authors == FindAll(xml, Desc("Author"))
    IN  [i \in 1..Len(authors) |->
            [lastname |-> Content(authors[i], Desc("LastName")),
             firstname |-> Content(authors[i], Desc("ForeName")),
             initials |-> Content(authors[i], Desc("Initials")),
             affiliation |-> Content(authors[i],
                 <<Step("descendant", "AffiliationInfo", <<>>),
                   Step("child", "Affiliation", <<>>)>>)]]

\* The assignments of PubMedArticle._initializeFromXML in their order, each
\* with the name it sets and the value or exception of its right-hand side.
PubMedAssignments(xml) ==
    <<[name |-> "pubmed_id",
       rhs |-> Ok(Content(xml, DescAttr("ArticleId", "IdType", "pubmed")))],
      [name |-> "title", rhs |-> Ok(Content(xml, Desc("ArticleTitle")))],
      [name |-> "keywords", rhs |-> Ok(KeywordTexts(xml, Desc("Keyword")))],
      [name |-> "journal",
       rhs |-> Ok(Content(xml, <<Step("descendant", "Journal", <<>>),
                                 Step("child", "Title", <<>>)>>))],
      [name |-> "abstract", rhs |-> Ok(Content(xml, Desc("AbstractText")))],
      [name |-> "copyrights",
       rhs |-> Ok(Content(xml, Desc("CopyrightInformation")))],
      [name |-> "doi",
       rhs |-> Ok(Content(xml, DescAttr("ArticleId", "IdType", "doi")))],
      [name |-> "publication_date", rhs |-> PubMedExtractPublicationDate(xml)],
      [name |-> "authors", rhs |-> Ok(PubMedExtractAuthors(xml))],
      [name |-> "xml", rhs |-> Ok(xml)]>>

----------------------------------------------------------------------------
(* article.py: PMCArticle *)

PMCSlots ==
    <<"pubmed_id", "title", "abstract", "keywords", "journal",
      "publication_date", "authors", "body", "introduction", "methods",
      "results", "discussion", "conclusion", "copyrights", "doi", "xml">>

ElectronicPubDate ==
    <<Step("descendant", "pub-date",
           << <<"date-type", "pub">>, <<"publication-format", "electronic">> >>)>>

\* The date node PMCArticle._extractPublicationDate settles on.
SelectPubDateSkipElectronic(xml) ==
    LET dates == FindAll(xml, Desc("pub-date"))
        epub == SelectSeq(dates, LAMBDA date : Get(date, "pub-type") = Some("epub"))
    IN  IF epub # <<>> THEN Some(epub[Len(epub)])
        ELSE Find(xml, Desc("pub-date"))

SelectPubDate(xml) ==
    LET publication_dates == FindAll(xml, Desc("pub-date"))
        epub == SelectSeq(publication_dates,
                          LAMBDA date : Get(date, "pub-type") = Some("epub"))
        \* the loop keeps the last date whose pub-type is epub
        looped == IF epub = <<>> THEN None ELSE Some(epub[Len(epub)])
        second == IF looped = None THEN Find(xml, ElectronicPubDate) ELSE looped
    IN  IF second = None THEN Find(xml, Desc("pub-date")) ELSE second

PMCExtractPublicationDate(xml) ==
    TryDate(DateOf(SelectPubDate(xml), "year", "month", "day"))

PMCExtractAuthors(xml) ==
    LET names == FindAll(xml,
            <<Step("descendant", "contrib-group", <<>>),
              Step("child", "contrib", << <<"contrib-type", "author">> >>),
              Step("child", "name", <<>>)>>)
    IN  [i \in 1..Len(names) |->
            [k \in {"surname", "given-names"} |->
                Content(names[i], Desc(k))]]

BodyPath == Desc("body")

BodySecPath == <<Step("descendant", "body", <<>>), Step("child", "sec", <<>>)>>

\* The assignments of PMCArticle._initializeFromXML in their order; the tuple
\* assignment of the five canonical sections is five entries.
PMCAssignments(xml) ==
    LET sections == getBodySections(xml, BodySecPath, None)
    IN  <<[name |-> "pubmed_id",
           rhs |-> Ok(Content(xml, DescAttr("article-id", "pub-id-type", "pmc")))],
          [name |-> "title",
           rhs |-> Ok(Content(xml, <<Step("descendant", "title-group", <<>>),
                                     Step("child", "article-title", <<>>)>>))],
          [name |-> "keywords",
           rhs |-> Ok(KeywordTexts(xml, <<Step("descendant", "kwd-group", <<>>),
                                          Step("child", "kwd", <<>>)>>))],
          [name |-> "journal", rhs |-> Ok(Content(xml, Desc("journal-title")))],
          [name |-> "abstract", rhs |-> Ok(getAbstract(xml, Desc("abstract"), None))],
          [name |-> "body", rhs |-> Ok(getBody(xml, BodyPath, None))],
          [name |-> "introduction", rhs |-> Ok(sections[1])],
          [name |-> "methods", rhs |-> Ok(sections[2])],
          [name |-> "results", rhs |-> Ok(sections[3])],
          [name |-> "discussion", rhs |-> Ok(sections[4])],
          [name |-> "conclusion", rhs |-> Ok(sections[5])],
          [name |-> "copyrights",
           rhs |-> Ok(Content(xml, <<Step("descendant", "permissions", <<>>),
                                     Step("child", "copyright-statement", <<>>)>>))],
          [name |-> "doi",
           rhs |-> Ok(Content(xml, DescAttr("article-id", "pub-id-type", "doi")))],
          [name |-> "publication_date", rhs |-> PMCExtractPublicationDate(xml)],
          [name |-> "authors", rhs |-> Ok(PMCExtractAuthors(xml))],
          [name |-> "xml", rhs |-> Ok(xml)]>>

----------------------------------------------------------------------------
(* article.py: construction and toDict, the same code in both classes *)

Slots(class) == IF class = "PubMedArticle" THEN PubMedSlots ELSE PMCSlots

Assignments(class, xml) ==
    IF class = "PubMedArticle" THEN PubMedAssignments(xml) ELSE PMCAssignments(xml)

\* The number of assignments _initializeFromXML completes: all of them, or
\* those before the first right-hand side that raises.
Completed(assignments) ==
    LET raising == {i \in 1..Len(assignments) : assignments[i].rhs.raised}
    IN  IF raising = {} THEN Len(assignments)
        ELSE (CHOOSE i \in raising : \A j \in raising : i <= j) - 1

\* The attributes the first `done` assignments set, and whether the next one
\* raised.
Assigned(assignments, done) ==
    [raised |-> done < Len(assignments),
     attrs |-> [name \in {assignments[i].name : i \in 1..done} |->
                  assignments[CHOOSE i \in 1..done :
                                 assignments[i].name = name].rhs.value]]

Run(assignments) == Assigned(assignments, Completed(assignments))

\* _initializeFromXML
InitializeFromXML(class, xml) == Run(Assignments(class, xml))

\* for field in self.__slots__: self.__setattr__(field, kwargs.get(field, None))
InitializeFromKwargsGiven(class, kw) ==
    [raised |-> FALSE,
     attrs |-> [field \in Range(Slots(class)) \cap DOMAIN kw |-> kw[field]]]

InitializeFromKwargs(class, kw) ==
    [raised |-> FALSE,
     attrs |-> [field \in Range(Slots(class)) |->
                  IF field \in DOMAIN kw THEN kw[field] ELSE None]]

\* The object __init__ leaves: built, or abandoned by an exception with the
\* attributes set until then.
Object(class, initialized) ==
    [class |-> class,
     state |-> IF initialized.raised THEN "raised" ELSE "built",
     attrs |-> initialized.attrs]

\* __init__(self, xml_element=None, *args, **kwargs)
Construct(class, xml, kw) ==
    Object(class, IF xml # None THEN InitializeFromXML(class, xml[1])
                  ELSE InitializeFromKwargs(class, kw))

\* toDict(): {key: self.__getattribute__(key) for key in self.__slots__};
\* reading a slot that was never set raises AttributeError.
toDict(self) ==
    IF Range(Slots(self.class)) \subseteq DOMAIN self.attrs
    THEN Ok([key \in Range(Slots(self.class)) |-> self.attrs[key]])
    ELSE Raise("AttributeError")

----------------------------------------------------------------------------
(* The inputs: bounded families of documents, keyword arguments and lists *)

MaxKeywords == 2

MaxDates == 3

MaxBodyChildren == 2

MaxMatches == 2

MaxLen == 7

MaxN == 3

SeqsUpTo(S, k) == UNION {[1..m -> S] : m \in 0..k}

Branch(tag, children) == E(tag, <<>>, None, None, children)

\* A node per entry of parts that is present: parts[i] is None for no node,
\* Some(text) for a node with that Optional text.
Present(tags, parts) ==
    LET at == SelectSeq([i \in 1..Len(tags) |-> i], LAMBDA i : parts[i] # None)
    IN  [j \in 1..Len(at) |-> Leaf(tags[at[j]], parts[at[j]][1])]

KeywordChoices == {None, Some("k1"), Some("k2")}

YearChoices ==
    {None, Some(None), Some(Some("2020")), Some(Some("2021")),
     Some(Some("abcd")), Some(Some("0")), Some(Some(" 2020\n"))}

MonthChoices ==
    {None, Some(None), Some(Some("2")), Some(Some("02")), Some(Some("13")),
     Some(Some("Feb"))}

DayChoices == {None, Some(Some("29")), Some(Some("30")), Some(Some("x"))}

DatePartChoices ==
    {<<y, m, d>> : y \in YearChoices, m \in MonthChoices, d \in DayChoices}

(* Article-summary documents *)

PubMedPubDate(status, parts) ==
    E("PubMedPubDate", << <<"PubStatus", status>> >>, None, None,
      Present(<<"Year", "Month", "Day">>, parts))

PubMedMetadata ==
    <<Branch("Journal", <<Leaf("Title", Some("Journal A"))>>),
      Leaf("ArticleTitle", Some("Title A")),
      Branch("Abstract",
          <<Leaf("AbstractText", Some("Background.")),
            Leaf("AbstractText", Some("Findings.")),
            Leaf("CopyrightInformation", Some("(c) A"))>>),
      Branch("AuthorList",
          <<Branch("Author",
                <<Leaf("LastName", Some("Doe")), Leaf("ForeName", Some("Jane")),
                  Leaf("Initials", Some("J")),
                  Branch("AffiliationInfo",
                      <<Leaf("Affiliation", Some("Univ"))>>)>>),
            Branch("Author", <<Leaf("LastName", Some("Roe"))>>)>>),
      Branch("ArticleIdList",
          <<E("ArticleId", << <<"IdType", "pubmed">> >>, Some("123"), None, <<>>),
            E("ArticleId", << <<"IdType", "doi">> >>, Some("10.1/a"), None, <<>>)>>)>>

PubMedDoc(metadata, keywords, dates) ==
    Branch("PubmedArticle",
        <<Branch("MedlineCitation",
              metadata
              \o <<Branch("KeywordList",
                      [i \in 1..Len(keywords) |-> Leaf("Keyword", keywords[i])])>>),
          Branch("PubmedData", <<Branch("History", dates)>>)>>)

EntrezDate == PubMedPubDate("entrez", <<Some(Some("1999")), Some(Some("12")), None>>)

GoodPubMedDate ==
    PubMedPubDate("pubmed", <<Some(Some("2020")), Some(Some("2")), Some(Some("29"))>>)

PubMedDocs ==
    {PubMedDoc(PubMedMetadata, k, <<EntrezDate, GoodPubMedDate>>) :
        k \in SeqsUpTo(KeywordChoices, MaxKeywords)}
    \cup {PubMedDoc(PubMedMetadata, <<Some("k1")>>,
                    <<EntrezDate, PubMedPubDate("pubmed", parts)>>) :
            parts \in DatePartChoices}
    \cup {PubMedDoc(PubMedMetadata, <<Some("k1")>>, <<EntrezDate>>),
          PubMedDoc(<<>>, <<>>, <<>>)}

(* Full-text documents *)

PubDate(attrs, parts) ==
    E("pub-date", attrs, None, None, Present(<<"year", "month", "day">>, parts))

Year(y) == <<Some(Some(y)), None, None>>

\* Date nodes of each type, told apart by their year.
TypedDates ==
    {PubDate(<< <<"pub-type", "epub">> >>, Year("2001")),
     PubDate(<< <<"pub-type", "epub">> >>, Year("epub")),
     PubDate(<< <<"pub-type", "ppub">> >>, Year("2002")),
     PubDate(<<>>, Year("2003")),
     PubDate(<< <<"date-type", "pub">>, <<"publication-format", "electronic">> >>,
             Year("2004")),
     PubDate(<< <<"date-type", "pub">>, <<"publication-format", "print">> >>,
             Year("2005"))}

P(text) == Leaf("p", Some(text))

Title(text) == Leaf("title", Some(text))

Sec(children) == Branch("sec", children)

\* What a body may hold: bare paragraphs, sections whose titles name canonical
\* sections in various ways, nested sections, sections inside other elements.
BodyChildren ==
    {P("Alpha."),
     E("p", <<>>, Some(" See "), None,
       <<E("xref", <<>>, Some("1"), Some(" end. "), <<>>)>>),
     Sec(<<Title("Methods and Materials"), P("M1."),
           Branch("list", <<P("M2.")>>)>>),
     Sec(<<Title("Results and Discussion"), P("R1."),
           Sec(<<Title("Conclusion"), P("N1.")>>)>>),
     Sec(<<Title("INTRODUCTION")>>),
     Sec(<<E("title", <<>>, Some("Study "), None,
             <<E("italic", <<>>, Some("methods"), Some(" used"), <<>>)>>),
           P("S1.")>>),
     Sec(<<E("title", <<>>, None, None,
             <<E("bold", <<>>, Some("Results"), None, <<>>)>>),
           P("B1.")>>),
     Sec(<<E("title", <<>>, Some("Results "), None,
             <<E("sup", <<>>, Some("a"), Some(" overview"), <<>>)>>),
           P("O1.")>>),
     Sec(<<P("U1.")>>),
     Branch("boxed-text", <<Sec(<<Title("Discussion"), P("D1.")>>)>>)}

PMCMetadata ==
    <<Branch("journal-meta", <<Leaf("journal-title", Some("Journal B"))>>),
      E("article-id", << <<"pub-id-type", "pmc">> >>, Some("456"), None, <<>>),
      E("article-id", << <<"pub-id-type", "doi">> >>, Some("10.1/b"), None, <<>>),
      Branch("title-group", <<Leaf("article-title", Some("Title B"))>>),
      Branch("contrib-group",
          <<E("contrib", << <<"contrib-type", "author">> >>, None, None,
              <<Branch("name", <<Leaf("surname", Some("Poe")),
                                 Leaf("given-names", Some("Ann"))>>)>>),
            E("contrib", << <<"contrib-type", "editor">> >>, None, None,
              <<Branch("name", <<Leaf("surname", Some("Ed"))>>)>>)>>),
      Branch("permissions", <<Leaf("copyright-statement", Some("(c) B"))>>),
      Branch("abstract", <<P("Abs.")>>)>>

PMCDoc(metadata, keywords, dates, bodies) ==
    Branch("article",
        <<Branch("front",
              metadata \o dates
              \o <<Branch("kwd-group",
                      [i \in 1..Len(keywords) |-> Leaf("kwd", keywords[i])])>>)>>
        \o bodies)

GoodPubDate ==
    PubDate(<<>>, <<Some(Some("2020")), Some(Some("2")), Some(Some("29"))>>)

PlainBody == Branch("body", <<Sec(<<Title("Methods"), P("M.")>>)>>)

PMCDocs ==
    {PMCDoc(PMCMetadata, k, <<GoodPubDate>>, <<PlainBody>>) :
        k \in SeqsUpTo(KeywordChoices, MaxKeywords)}
    \cup {PMCDoc(PMCMetadata, <<Some("k1")>>, <<PubDate(<<>>, parts)>>,
                 <<PlainBody>>) : parts \in DatePartChoices}
    \cup {PMCDoc(PMCMetadata, <<Some("k1")>>, dates, <<PlainBody>>) :
            dates \in SeqsUpTo(TypedDates, MaxDates)}
    \cup {PMCDoc(PMCMetadata, <<Some("k1")>>, <<GoodPubDate>>,
                 <<Branch("body", children)>>) :
            children \in SeqsUpTo(BodyChildren, MaxBodyChildren)}
    \cup {PMCDoc(PMCMetadata, <<Some("k1")>>, <<GoodPubDate>>, <<>>),
          PMCDoc(PMCMetadata, <<Some("k1")>>, <<GoodPubDate>>,
                 <<Branch("body", <<P("Alpha.")>>), PlainBody>>),
          PMCDoc(<<>>, <<>>, <<>>, <<>>)}

KwargsChoices ==
    {[k \in given |-> Some("given " \o k)] :
        given \in SUBSET {"title", "body", "bogus"}}
    \cup {[k \in {"title", "keywords"} |-> None]}

\* getContent's inputs: an element with up to MaxMatches children.
ContentChildren ==
    {Leaf(tag, text) : tag \in {"a", "b"}, text \in {None, Some("x"), Some("y")}}

ContentElements ==
    {Branch("root", children) : children \in SeqsUpTo(ContentChildren, MaxMatches)}

----------------------------------------------------------------------------
(* The state machines *)

NoArticle == [class |-> "", state |-> "none", attrs |-> <<>>]

ArticleIdle ==
    /\ xml_element = None
    /\ kwargs = <<>>
    /\ article = NoArticle
    /\ dict = None

ContentIdle ==
    /\ element = Branch("root", <<>>)
    /\ content = None

BatchesIdle ==
    /\ iterable = <<>>
    /\ n = 1
    /\ index = 0
    /\ chunks = <<>>
    /\ exhausted = FALSE

\* A caller holds a document and no keyword arguments, or keyword arguments
\* and no document, and has yet to construct the article.
Init ==
    /\ \/ xml_element \in {Some(d) : d \in PubMedDocs \cup PMCDocs} /\ kwargs = <<>>
       \/ xml_element = None /\ kwargs \in KwargsChoices
    /\ article = NoArticle
    /\ dict = None
    /\ ContentIdle
    /\ BatchesIdle

\* PubMedArticle(xml_element, **kwargs)
NewPubMedArticle ==
    /\ article.state = "none"
    /\ article' = Construct("PubMedArticle", xml_element, kwargs)
    /\ UNCHANGED <<xml_element, kwargs, dict, element, content,
                   iterable, n, index, chunks, exhausted>>

\* PMCArticle(xml_element, **kwargs)
NewPMCArticle ==
    /\ article.state = "none"
    /\ article' = Construct("PMCArticle", xml_element, kwargs)
    /\ UNCHANGED <<xml_element, kwargs, dict, element, content,
                   iterable, n, index, chunks, exhausted>>

\* article.toDict()
ToDict ==
    /\ article.state = "built"
    /\ dict = None
    /\ dict' = Some(toDict(article))
    /\ UNCHANGED <<xml_element, kwargs, article, element, content,
                   iterable, n, index, chunks, exhausted>>

Next == NewPubMedArticle \/ NewPMCArticle \/ ToDict

Spec == Init /\ [][Next]_vars

InitContent ==
    /\ ArticleIdle
    /\ element \in ContentElements
    /\ content = None
    /\ BatchesIdle

\* getContent(element, path, default, separator)
GetContent ==
    /\ \E tag \in {"a", "b", "c"}, default \in {None, Some("dflt")},
          separator \in {"\n", ", "} :
          content' = Some([path |-> Child(tag), default |-> default,
                           separator |-> separator,
                           returned |-> getContent(Some(element), Child(tag),
                                                   default, separator)])
    /\ UNCHANGED <<xml_element, kwargs, article, dict, element,
                   iterable, n, index, chunks, exhausted>>

NextContent == GetContent

SpecContent == InitContent /\ [][NextContent]_vars

InitBatches ==
    /\ ArticleIdle
    /\ ContentIdle
    /\ iterable \in SeqsUpTo({"a", "b"}, MaxLen)
    /\ n \in 1..MaxN
    /\ index = 0
    /\ chunks = <<>>
    /\ exhausted = FALSE

\* next() on the generator while range(0, length, n) has a value left
BatchesYield ==
    /\ ~exhausted
    /\ index < Len(iterable)
    /\ chunks' = Append(chunks, BatchSlice(iterable, index, n, Len(iterable)))
    /\ index' = index + n
    /\ UNCHANGED <<xml_element, kwargs, article, dict, element, content,
                   iterable, n, exhausted>>

\* next() on the generator once the range is used up: StopIteration
BatchesStop ==
    /\ ~exhausted
    /\ index >= Len(iterable)
    /\ exhausted' = TRUE
    /\ UNCHANGED <<xml_element, kwargs, article, dict, element, content,
                   iterable, n, index, chunks>>

NextBatches == BatchesYield \/ BatchesStop

SpecBatches == InitBatches /\ [][NextBatches]_vars

----------------------------------------------------------------------------
(* The claims *)

Built == article.state = "built" /\ xml_element # None

BuiltPMC == Built /\ article.class = "PMCArticle"

Attr(name) == article.attrs[name]

\* C1: getContent returns default when the selector matches no node and when
\* no matched node has text, and otherwise the separator-joined texts of the
\* matched nodes that have text, in document order.
C1_DefaultWhenNoText ==
    content # None =>
        LET call == content[1]
            matched == FindAll(element, call.path)
            withText == SelectSeq(matched, LAMBDA e : e.text # None)
        IN  /\ ~call.returned.raised
            /\ call.returned.value =
                  IF withText = <<>> THEN call.default
                  ELSE Some(Join(call.separator,
                                 [i \in 1..Len(withText) |-> withText[i].text[1]]))

C2_KeywordPath(class) ==
    IF class = "PubMedArticle" THEN Desc("Keyword")
    ELSE <<Step("descendant", "kwd-group", <<>>), Step("child", "kwd", <<>>)>>

\* C2: the keyword list of either class holds exactly the texts of the matched
\* keyword nodes that have text, in document order: no absent entry, and as
\* many entries as matched nodes with text.
C2_KeywordsWithoutAbsent ==
    Built =>
        LET matched == FindAll(xml_element[1], C2_KeywordPath(article.class))
            withText == SelectSeq(matched, LAMBDA e : e.text # None)
            keywords == Attr("keywords")
        IN  /\ \A i \in 1..Len(keywords) : keywords[i] # None
            /\ Len(keywords) = Len(withText)
            /\ \A i \in 1..Len(keywords) : keywords[i] = withText[i].text

C3_IsEpub(date) == Get(date, "pub-type") = Some("epub")

C3_IsElectronic(date) ==
    /\ Get(date, "date-type") = Some("pub")
    /\ Get(date, "publication-format") = Some("electronic")

\* The publication date is what the one node `date` yields.
C3_Uses(date) ==
    Attr("publication_date") = TryDate(DateOf(Some(date), "year", "month", "day")).value

\* C3: PMCArticle's publication date comes from an epub node when there is
\* one, wherever it stands; otherwise from the node that is date-type pub and
\* publication-format electronic; otherwise from the first pub-date node; and
\* from that node alone.
C3_PubDatePriority ==
    BuiltPMC =>
        LET dates == FindAll(xml_element[1], Desc("pub-date"))
            epub == SelectSeq(dates, C3_IsEpub)
            electronic == SelectSeq(dates, C3_IsElectronic)
        IN  IF epub # <<>> THEN \E i \in 1..Len(epub) : C3_Uses(epub[i])
            ELSE IF electronic # <<>> THEN C3_Uses(electronic[1])
            ELSE IF dates # <<>> THEN C3_Uses(dates[1])
            ELSE Attr("publication_date") = None

\* An epub node that follows a print and an untyped node is the one used.
C3_Witness ==
    /\ BuiltPMC
    /\ LET dates == FindAll(xml_element[1], Desc("pub-date"))
       IN  /\ Len(dates) >= 2
           /\ ~C3_IsEpub(dates[1])
           /\ \E i \in 2..Len(dates) : C3_IsEpub(dates[i])
           /\ \E i \in 1..Len(dates) : C3_IsElectronic(dates[i])
    /\ Attr("publication_date") = Some([year |-> 2001, month |-> 1, day |-> 1])

C4_DateTags == {"PubMedPubDate", "pub-date"}

\* The document with its date nodes taken out.
RECURSIVE C4_WithoutDates(_)
C4_WithoutDates(e) ==
    LET kept == SelectSeq(e.children, LAMBDA c : c.tag \notin C4_DateTags)
    IN  [e EXCEPT !.children = [i \in 1..Len(kept) |-> C4_WithoutDates(kept[i])]]

\* The same document with a valid date in place of its date nodes.
C4_WithValidDate(xml) ==
    [C4_WithoutDates(xml) EXCEPT !.children = @ \o <<GoodPubMedDate, GoodPubDate>>]

\* The date node of the document, by class.
C4_DateNode(class, xml) ==
    IF class = "PubMedArticle"
    THEN Find(xml, DescAttr("PubMedPubDate", "PubStatus", "pubmed"))
    ELSE SelectPubDate(xml)

\* The integer in the text below the date node, "1" standing in for a missing
\* month or day node.
C4_Part(node, tag, missing) ==
    IF node = None THEN Raise("AttributeError")
    ELSE LET found == FindAll(node[1], Desc(tag))
         IN  IF found = <<>> THEN int(missing)
             ELSE int(Some(Join("\n", TextsOf(found))))

C4_Expected(y, m, d) ==
    IF /\ ~y.raised /\ ~m.raised /\ ~d.raised
       /\ y.value \in 1..9999
       /\ m.value \in 1..12
       /\ d.value \in 1..DaysInMonth(y.value, m.value)
    THEN Some([year |-> y.value, month |-> m.value, day |-> d.value])
    ELSE None

C4_SameOtherFields(class, ref) ==
    /\ ref.state = "built"
    /\ ref.attrs["publication_date"] = Some([year |-> 2020, month |-> 2, day |-> 29])
    /\ \A f \in Range(Slots(class)) \ {"publication_date", "xml"} :
          Attr(f) = ref.attrs[f]

\* C4: date resolution is all or nothing and never raises. For both classes
\* the constructor returns a record whose publication date is the calendar
\* date of the integer year, month (1 when the month node is missing) and day
\* (1 when the day node is missing) of the date node, or None when there is no
\* date node, no year, a non-numeric part or a part out of range; and every
\* other field is what it is for the same document with a valid date.
C4_DateAllOrNothing ==
    (article.state # "none" /\ xml_element # None) =>
        /\ article.state = "built"
        /\ LET node == C4_DateNode(article.class, xml_element[1])
               tags == IF article.class = "PubMedArticle"
                       THEN <<"Year", "Month", "Day">>
                       ELSE <<"year", "month", "day">>
           IN  Attr("publication_date") =
                   C4_Expected(C4_Part(node, tags[1], None),
                               C4_Part(node, tags[2], Some("1")),
                               C4_Part(node, tags[3], Some("1")))
        /\ C4_SameOtherFields(article.class,
               Construct(article.class, Some(C4_WithValidDate(xml_element[1])), <<>>))

\* A record built from a date node whose year is "abcd": no date, the other
\* fields populated.
C4_Witness ==
    /\ Built
    /\ LET node == C4_DateNode(article.class, xml_element[1])
       IN  /\ node # None
           /\ Content(node[1], Desc(IF article.class = "PubMedArticle"
                                    THEN "Year" ELSE "year")) = Some("abcd")
    /\ Attr("publication_date") = None
    /\ Attr("title") # None
    /\ Attr("doi") # None
    /\ Attr("keywords") # <<>>

\* The top-level sections of the body, and the leading text of a section's
\* title: the text before the title's first child element, "" if none.
C5_TopLevel == FindAll(xml_element[1], BodySecPath)

C5_HasTitle(sec) == \E i \in 1..Len(sec.children) : sec.children[i].tag = "title"

C5_TitleNode(sec) ==
    sec.children[CHOOSE i \in 1..Len(sec.children) :
        /\ sec.children[i].tag = "title"
        /\ \A j \in 1..(i - 1) : sec.children[j].tag # "title"]

C5_LeadingTitle(sec) ==
    IF C5_TitleNode(sec).text = None THEN "" ELSE C5_TitleNode(sec).text[1]

C5_Contributes(sec, name) ==
    C5_HasTitle(sec) /\ Contains(name, Lower(C5_LeadingTitle(sec)))

\* What a contributing section adds: its rendered title, ": ", and each of
\* its paragraphs at any depth followed by a blank line.
C5_Contribution(sec) ==
    LET ps == SelectSeq(Tail(Iter(sec)), LAMBDA e : e.tag = "p")
    IN  Render(C5_TitleNode(sec)) \o ": "
        \o Join("", [i \in 1..Len(ps) |-> Render(ps[i]) \o "\n\n"])

\* Whether a section with this title is among the sections given.
C5_Titled(secs, text) ==
    \E i \in 1..Len(secs) :
        C5_HasTitle(secs[i]) /\ C5_LeadingTitle(secs[i]) = text

\* C5: the five canonical passes are independent. For every canonical name N
\* the bucket N holds, in document order, the contribution of exactly those
\* top-level sections whose title's lower-cased text (the text of the title
\* node, as findtext gives it) contains N, whatever other buckets they are in,
\* and is None when there is none; so "Methods and Materials" is in methods
\* and "Results and Discussion" in both results and discussion.
C5_IndependentPasses ==
    BuiltPMC =>
        LET top == C5_TopLevel
        IN  /\ \A name \in Range(SectionNames) :
                  LET in == SelectSeq(top, LAMBDA sec : C5_Contributes(sec, name))
                  IN  Attr(name) =
                          IF in = <<>> THEN None
                          ELSE Some(Join("", [i \in 1..Len(in) |->
                                                 C5_Contribution(in[i])]))
            /\ C5_Titled(top, "Methods and Materials") =>
                  /\ Attr("methods") # None
                  /\ Contains("Methods and Materials: M1.", Attr("methods")[1])
            /\ C5_Titled(top, "Results and Discussion") =>
                  /\ Attr("results") # None
                  /\ Attr("discussion") # None
                  /\ Contains("Results and Discussion: R1.", Attr("results")[1])
                  /\ Contains("Results and Discussion: R1.", Attr("discussion")[1])

\* A body with both example sections: one section in two buckets, and the
\* buckets nothing names absent.
C5_Witness ==
    /\ BuiltPMC
    /\ C5_Titled(C5_TopLevel, "Methods and Materials")
    /\ C5_Titled(C5_TopLevel, "Results and Discussion")
    /\ Attr("methods") = Some("Methods and Materials: M1.\n\nM2.\n\n")
    /\ Attr("results") = Attr("discussion")
    /\ Attr("results") # None
    /\ Attr("introduction") = None

C6_Bodies == FindAll(xml_element[1], BodyPath)

\* No body of the document has a sec element below it.
C6_NoSections ==
    \A i \in 1..Len(C6_Bodies) :
        \A e \in Range(Tail(Iter(C6_Bodies[i]))) : e.tag # "sec"

C6_CanonicalAbsent == \A name \in Range(SectionNames) : Attr(name) = None

\* A PMCArticle was constructed from a document without sections.
C6_Case ==
    /\ article.state # "none"
    /\ article.class = "PMCArticle"
    /\ xml_element # None
    /\ C6_NoSections

\* C6 as stated: a document whose body holds no section node has all five
\* canonical fields and the whole-body field None, and raises no error.
C6_AllAbsentWithoutSections ==
    C6_Case =>
        /\ article.state = "built"
        /\ C6_CanonicalAbsent
        /\ Attr("body") = None

\* C6 as amended: a document whose body holds no section node raises no error
\* and has all five canonical fields None; its whole-body field is None only
\* when the body has no child element, and otherwise is the rendered text of
\* each child of the body, each followed by a blank line.
C6_CanonicalAbsentWithoutSections ==
    C6_Case =>
        /\ article.state = "built"
        /\ C6_CanonicalAbsent
        /\ LET children == Flatten([i \in 1..Len(C6_Bodies) |-> C6_Bodies[i].children])
           IN  Attr("body") =
                   IF children = <<>> THEN None
                   ELSE Some(Join("", [i \in 1..Len(children) |->
                                          Render(children[i]) \o "\n\n"]))

\* A body of bare paragraphs only: the canonical fields absent, the whole-body
\* field holding the paragraphs.
C6_Witness ==
    /\ BuiltPMC
    /\ C6_NoSections
    /\ Len(C6_Bodies) = 1
    /\ Len(C6_Bodies[1].children) = 2
    /\ C6_CanonicalAbsent
    /\ Attr("body") = Some("Alpha.\n\nSee 1 end.\n\n")

C7_Ceil(a, b) == (a + b - 1) \div b

\* C7: batches yields ceil(L/n) chunks in order, each of n elements but the
\* last, which has 1 to n; none is empty; and the chunks concatenated are the
\* sequence.
C7_BatchesPartition ==
    /\ \A i \in 1..Len(chunks) : Len(chunks[i]) \in 1..n
    /\ \A i \in 1..Len(chunks) :
          i < C7_Ceil(Len(iterable), n) => Len(chunks[i]) = n
    /\ Len(chunks) <= C7_Ceil(Len(iterable), n)
    /\ Flatten(chunks) = SubSeq(iterable, 1, Len(Flatten(chunks)))
    /\ exhausted =>
          /\ Len(chunks) = C7_Ceil(Len(iterable), n)
          /\ Flatten(chunks) = iterable

\* Seven elements in chunks of three: lengths 3, 3, 1.
C7_Witness ==
    /\ exhausted
    /\ Len(iterable) = 7
    /\ n = 3
    /\ [i \in 1..Len(chunks) |-> Len(chunks[i])] = <<3, 3, 1>>
    /\ Flatten(chunks) = iterable

C8_Declared(class) ==
    {"pubmed_id", "title", "abstract", "keywords", "journal", "publication_date",
     "authors", "copyrights", "doi", "xml"}
    \cup (IF class = "PMCArticle"
          THEN {"body", "introduction", "methods", "results", "discussion",
                "conclusion"}
          ELSE {})

\* C8: every record the constructor returns, from a document or from keyword
\* arguments, has every declared field set, and toDict() maps exactly the
\* declared fields: 10 keys for PubMedArticle, 16 for PMCArticle.
C8_DeclaredKeysOnly ==
    /\ article.state = "built" =>
          /\ C8_Declared(article.class) \subseteq DOMAIN article.attrs
          /\ Cardinality(C8_Declared(article.class)) =
                 IF article.class = "PubMedArticle" THEN 10 ELSE 16
    /\ dict # None =>
          /\ ~dict[1].raised
          /\ DOMAIN dict[1].value = C8_Declared(article.class)
          /\ \A key \in C8_Declared(article.class) :
                dict[1].value[key] = article.attrs[key]

\* A PMCArticle from keyword arguments that name one declared field and one
\* undeclared: 16 keys, the one given set and the rest None.
C8_Witness ==
    /\ dict # None
    /\ xml_element = None
    /\ article.class = "PMCArticle"
    /\ DOMAIN kwargs = {"body", "bogus"}
    /\ ~dict[1].raised
    /\ Cardinality(DOMAIN dict[1].value) = 16
    /\ dict[1].value["body"] = Some("given body")
    /\ dict[1].value["title"] = None

C9_Sections(e) == SelectSeq(Iter(e), LAMBDA d : d.tag = "sec")

\* A section rendered unconditionally: its title, then each of its paragraphs
\* followed by a blank line.
C9_Section(sec) ==
    LET ps == SelectSeq(sec.children, LAMBDA c : c.tag = "p")
    IN  (IF C5_HasTitle(sec) THEN Render(C5_TitleNode(sec)) \o ": " ELSE "")
        \o Join("", [i \in 1..Len(ps) |-> Render(ps[i]) \o "\n\n"])

\* What one top-level child of a body yields: its sections if it has any, and
\* its own text followed by a blank line if not.
C9_Child(child) ==
    IF C9_Sections(child) # <<>>
    THEN Join("", [i \in 1..Len(C9_Sections(child)) |->
                      C9_Section(C9_Sections(child)[i])])
    ELSE Render(child) \o "\n\n"

\* C9: the whole-body field renders every top-level child of the body in
\* document order and loses none: the sections of a child that has any, the
\* own text of a child that has none; bare paragraphs and sections of one body
\* both appear.
C9_EveryChildRendered ==
    BuiltPMC =>
        LET children == Flatten([i \in 1..Len(C6_Bodies) |-> C6_Bodies[i].children])
        IN  Attr("body") =
                IF children = <<>> THEN None
                ELSE Some(Join("", [i \in 1..Len(children) |-> C9_Child(children[i])]))

C10_Matching(name) ==
    SelectSeq(C5_TopLevel, LAMBDA sec : C5_Contributes(sec, name))

\* The sections below a body that are not top-level sections.
C10_Inner ==
    LET all == Flatten([i \in 1..Len(C6_Bodies) |-> C9_Sections(C6_Bodies[i])])
        top == Flatten([i \in 1..Len(C6_Bodies) |->
                   SelectSeq(C6_Bodies[i].children, LAMBDA c : c.tag = "sec")])
    IN  Range(all) \ Range(top)

\* C10: a top-level section is matched on the leading text of its title alone,
\* so a bucket is None when no top-level title's leading text names it, even
\* if inline markup of a title, text after it, or an inner section's title
\* does; what a matching section adds starts with its fully rendered title;
\* and the paragraphs of a section that is not top-level are in a bucket only
\* below a matching top-level section.
C10_LeadingTitleTextOnly ==
    BuiltPMC =>
        LET inner == C10_Inner
        IN  \A name \in Range(SectionNames) :
                LET matching == C10_Matching(name)
                    below == UNION {Range(Tail(Iter(matching[i]))) :
                                       i \in 1..Len(matching)}
                IN  /\ matching = <<>> => Attr(name) = None
                    /\ \A i \in 1..Len(matching) :
                          /\ Attr(name) # None
                          /\ Contains(Render(C5_TitleNode(matching[i])) \o ": ",
                                      Attr(name)[1])
                    /\ \A sec \in inner :
                          \A p \in {c \in Range(sec.children) : c.tag = "p"} :
                              (/\ Attr(name) # None
                               /\ Contains(Render(p) \o "\n\n", Attr(name)[1]))
                              => sec \in below

\* "methods" only inside the markup of one title, "Results" leading another
\* that goes on in markup: no methods bucket, and the results bucket with the
\* whole rendered title.
C10_Witness ==
    /\ BuiltPMC
    /\ \E sec \in Range(C5_TopLevel) :
          /\ C5_HasTitle(sec)
          /\ Contains("methods", Lower(Render(C5_TitleNode(sec))))
          /\ ~Contains("methods", Lower(C5_LeadingTitle(sec)))
    /\ Attr("methods") = None
    /\ Attr("results") = Some("Results a overview: O1.\n\n")

====
